---- MODULE Spec2Model ----
(***************************************************************************)
(* The questions router of the portal                                      *)
(* (apps/portal/src/server/router/questions-question-router.ts).           *)
(*                                                                         *)
(* The persistent tables (Question, Encounter, Vote) are the shared state. *)
(* Every request occupies a slot; a handler runs from one await to the     *)
(* next as one atomic step, so requests interleave between their           *)
(* persistence calls.  Ids (cuid strings) are modelled as naturals: the    *)
(* n-th row created in a table gets id n, and ids are never reused.  A     *)
(* question id and a user id are both plain strings in the code, so the    *)
(* same natural may name one of each.  arrivals counts the requests        *)
(* received so far.                                                        *)
(***************************************************************************)
EXTENDS Integers, Sequences, FiniteSets, TLC

VARIABLES questions, encounters, votes, nextQuestionId, nextVoteId, reqs,
          arrivals

vars == <<questions, encounters, votes, nextQuestionId, nextVoteId, reqs,
          arrivals>>

\* ---------------------------------------------------------------- bounds
MaxRequests == 4        \* requests received in one behaviour
MaxQuestions == 1       \* questions created in one behaviour
MaxVotes == 2           \* votes created in one behaviour
MaxSlots == 2           \* requests in flight at once
MaxDate == 2            \* dates are 1..MaxDate
MaxEnc == 2             \* encounters of the stored question in SpecQuery

\* ------------------------------------------------------------ value sets
NoId == 0               \* null / undefined id
NoDate == 0             \* startDate omitted
Null == "<null>"        \* null column value

Users == {1, 3}         \* session user ids
Slots == 1 .. MaxSlots
Dates == 1 .. MaxDate
Companies == {"A", "B"}
VoteKinds == {"UPVOTE", "DOWNVOTE"}

UserName(u) == IF u = 1 THEN "ann" ELSE "bob"

\* --------------------------------------------------------------- helpers
Includes(arr, x) == \E i \in 1 .. Len(arr) : arr[i] = x

Min(S) == CHOOSE x \in S : \A y \in S : x <= y
Max(S) == CHOOSE x \in S : \A y \in S : x >= y

RECURSIVE Ascending(_)
Ascending(S) == IF S = {} THEN <<>>
                ELSE <<Min(S)>> \o Ascending(S \ {Min(S)})

RECURSIVE Descending(_)
Descending(S) == IF S = {} THEN <<>>
                 ELSE <<Max(S)>> \o Descending(S \ {Max(S)})

RemoveKey(f, k) == [x \in DOMAIN f \ {k} |-> f[x]]

\* ------------------------------------------------- relational includes
\* include: { encounters: { select: company, location, role, seenAt } }
SelectEncounter(e) ==
    [company |-> e.company, location |-> e.location,
     role |-> e.role, seenAt |-> e.seenAt]

RECURSIVE IncludeEncounters(_, _)
IncludeEncounters(encs, qid) ==
    IF encs = <<>> THEN <<>>
    ELSE (IF Head(encs).questionId = qid
          THEN <<SelectEncounter(Head(encs))>> ELSE <<>>)
         \o IncludeEncounters(Tail(encs), qid)

\* include: { votes: true }
VoteIdsOf(vs, qid) == {v \in DOMAIN vs : vs[v].questionId = qid}

IncludeVotes(vs, qid) ==
    LET ids == Ascending(VoteIdsOf(vs, qid))
    IN  [i \in 1 .. Len(ids) |-> vs[ids[i]]]

\* one element of questionsData / questionData
FetchQuestion(qs, encs, vs, qid) ==
    [id |-> qid,
     content |-> qs[qid].content,
     questionType |-> qs[qid].questionType,
     user |-> qs[qid].userId,
     encounters |-> IncludeEncounters(encs, qid),
     votes |-> IncludeVotes(vs, qid)]

\* findMany: where questionType in input.questionTypes (when non-empty),
\* orderBy createdAt desc (creation order is id order)
FindManyQuestions(qs, encs, vs, input) ==
    LET ids == Descending({q \in DOMAIN qs :
                   Len(input.questionTypes) > 0
                       => Includes(input.questionTypes, qs[q].questionType)})
    IN  [i \in 1 .. Len(ids) |-> FetchQuestion(qs, encs, vs, ids[i])]

\* ---------------------------------------------------- the filter callback
MatchEncounter(input, encounter) ==
    LET matchCompany == Len(input.companies) = 0
                        \/ Includes(input.companies, encounter.company)
        matchLocation == Len(input.locations) = 0
                         \/ Includes(input.locations, encounter.location)
        matchRole == Len(input.roles) = 0
                     \/ Includes(input.roles, encounter.role)
        matchDate == (input.startDate = NoDate
                      \/ encounter.seenAt >= input.startDate)
                     /\ encounter.seenAt <= input.endDate
    IN  matchCompany /\ matchLocation /\ matchRole /\ matchDate

RECURSIVE FilterLoop(_, _, _)
FilterLoop(input, data, i) ==
    IF i > Len(data.encounters) THEN FALSE
    ELSE IF MatchEncounter(input, data.encounters[i]) THEN TRUE
    ELSE FilterLoop(input, data, i + 1)

\* the match decided on the first encounter alone
FilterQuestionFirstOnly(input, data) ==
    Len(data.encounters) > 0 /\ MatchEncounter(input, data.encounters[1])

FilterQuestion(input, data) == FilterLoop(input, data, 1)

\* ------------------------------------------------------- the vote reducer
\* a reducer that counts every vote as +1
VoteStepUnsigned(previousValue, currentValue) ==
    CASE currentValue.vote = "UPVOTE" -> previousValue + 1
      [] currentValue.vote = "DOWNVOTE" -> previousValue + 1
      [] OTHER -> previousValue

VoteStep(previousValue, currentValue) ==
    CASE currentValue.vote = "UPVOTE" -> previousValue + 1
      [] currentValue.vote = "DOWNVOTE" -> previousValue - 1
      [] OTHER -> previousValue

RECURSIVE ReduceVotes(_, _)
ReduceVotes(vs, acc) ==
    IF vs = <<>> THEN acc ELSE ReduceVotes(Tail(vs), VoteStep(acc, Head(vs)))

\* --------------------------------------------------------- the map callback
OrElse(x, default) == IF x = Null THEN default ELSE x

\* the displayed fields taken from the encounter that matched last
ShapeQuestionLastEncounter(data) ==
    LET n == Len(data.encounters)
    IN  [company |-> data.encounters[n].company,
         content |-> data.content,
         id |-> data.id,
         location |-> OrElse(data.encounters[n].location, "Unknown location"),
         numVotes |-> ReduceVotes(data.votes, 0),
         role |-> OrElse(data.encounters[n].role, "Unknown role"),
         seenAt |-> data.encounters[n].seenAt,
         type |-> data.questionType,
         user |-> IF data.user = NoId THEN "" ELSE UserName(data.user)]

ShapeQuestion(data) ==
    [company |-> data.encounters[1].company,
     content |-> data.content,
     id |-> data.id,
     location |-> OrElse(data.encounters[1].location, "Unknown location"),
     numVotes |-> ReduceVotes(data.votes, 0),
     role |-> OrElse(data.encounters[1].role, "Unknown role"),
     seenAt |-> data.encounters[1].seenAt,
     type |-> data.questionType,
     user |-> IF data.user = NoId THEN "" ELSE UserName(data.user)]

RECURSIVE FilterMap(_, _)
FilterMap(input, questionsData) ==
    IF questionsData = <<>> THEN <<>>
    ELSE (IF FilterQuestion(input, Head(questionsData))
          THEN <<ShapeQuestion(Head(questionsData))>> ELSE <<>>)
         \o FilterMap(input, Tail(questionsData))

\* ------------------------------------------------------------ persistence
EmptyTable == [x \in {} |-> NoId]

NullQuestion == [id |-> NoId, content |-> Null, questionType |-> Null,
                 userId |-> NoId]
NullVote == [id |-> NoId, questionId |-> NoId, userId |-> NoId, vote |-> Null]

\* questionsQuestion.findUnique({ where: { id } }): the row, or null
FindUniqueQuestion(qs, id) ==
    IF id \in DOMAIN qs
    THEN [id |-> id, content |-> qs[id].content,
          questionType |-> qs[id].questionType, userId |-> qs[id].userId]
    ELSE NullQuestion

\* questionsQuestionVote.findUnique({ where: { id } }): the row, or null
FindUniqueVote(vs, id) ==
    IF id \in DOMAIN vs
    THEN [id |-> id, questionId |-> vs[id].questionId,
          userId |-> vs[id].userId, vote |-> vs[id].vote]
    ELSE NullVote

\* questionsQuestionVote.findUnique({ where: { questionId_userId } })
VoteIdsOfPair(vs, questionId, userId) ==
    {v \in DOMAIN vs : vs[v].questionId = questionId /\ vs[v].userId = userId}

\* a table without the composite key
UniqueViolationNever(vs, questionId, userId) == FALSE

\* the composite key questionId_userId admits one row per pair
UniqueViolation(vs, questionId, userId) ==
    VoteIdsOfPair(vs, questionId, userId) # {}

\* a Vote or Encounter row references an existing Question
ForeignKeyViolation(qs, questionId) == questionId \notin DOMAIN qs

\* rows owned by a deleted Question go with it
CascadeEncounters(encs, qid) == SelectSeq(encs, LAMBDA e : e.questionId # qid)
CascadeVotes(vs, qid) ==
    [v \in {x \in DOMAIN vs : vs[x].questionId # qid} |-> vs[v]]

\* ------------------------------------------------------------- responses
NoResult == [code |-> "NONE", value |-> NullQuestion]
Ok(v) == [code |-> "OK", value |-> v]
TRPCError(code) == [code |-> code, value |-> NullQuestion]
\* a rejected persistence call, or a TypeError, surfaces as an internal error
Uncaught == [code |-> "INTERNAL_SERVER_ERROR", value |-> NullQuestion]

Idle == [op |-> "none", userId |-> NoId, input |-> [id |-> NoId],
         pc |-> "idle", local |-> NoId, result |-> NoResult]

NoneDone == \A s \in Slots : reqs[s].pc # "done"

\* a request arrives and is given the first free slot, r
Arrives(r) ==
    /\ reqs[r].pc = "idle"
    /\ \A s \in Slots : s < r => reqs[s].pc # "idle"
    /\ NoneDone
    /\ arrivals < MaxRequests

\* the handler of slot r runs up to its next await (pc) or to its response
Await(r, op, u, input, pc, local) ==
    /\ arrivals' = arrivals + 1
    /\ reqs' = [reqs EXCEPT ![r] = [op |-> op, userId |-> u, input |-> input,
                                    pc |-> pc, local |-> local,
                                    result |-> NoResult]]

Respond(r, op, u, input, result) ==
    /\ arrivals' = arrivals + 1
    /\ reqs' = [reqs EXCEPT ![r] = [op |-> op, userId |-> u, input |-> input,
                                    pc |-> "done", local |-> NoId,
                                    result |-> result]]

Finish(r, result) ==
    /\ reqs' = [reqs EXCEPT ![r].pc = "done", ![r].result = result]
    /\ UNCHANGED arrivals

\* ------------------------------------------------------------ input sets
Undefined == "<undefined>"
\* ids a caller may send: those given out so far and one never given out
QuestionIds == 1 .. nextQuestionId
VoteIds == 1 .. nextVoteId

FilterInput(c, l, ro, t, s, e) ==
    [companies |-> c, locations |-> l, roles |-> ro, questionTypes |-> t,
     startDate |-> s, endDate |-> e]

BrowseInputs ==
    {FilterInput(c, <<>>, <<>>, <<>>, NoDate, MaxDate) : c \in {<<>>, <<"B">>}}

QueryInputs ==
    {FilterInput(c, l, ro, t, s, e) :
        c \in {<<>>, <<"A">>, <<"B">>},
        l \in {<<>>, <<"L1">>},
        ro \in {<<>>, <<"R1">>},
        t \in {<<>>, <<"BEHAVIORAL">>, <<"BEHAVIORAL", "CODING">>},
        s \in {NoDate} \cup Dates,
        e \in Dates}

CreateInputs ==
    {[company |-> c, content |-> "c1", location |-> "L1",
      questionType |-> "CODING", role |-> "R1", seenAt |-> 1] :
        c \in {"A"}}

UpdateInputs ==
    {[id |-> i, content |-> ct[1], questionType |-> ct[2]] :
        i \in QuestionIds,
        ct \in {<<"c2", Undefined>>, <<Undefined, "BEHAVIORAL">>}}

\* ---------------------------------------------------------------- queries
ResolveGetQuestionsByFilter(qs, encs, vs, input) ==
    Ok(FilterMap(input, FindManyQuestions(qs, encs, vs, input)))

GetQuestionsByFilter(r, inputs) ==
    /\ Arrives(r)
    /\ \E input \in inputs :
          Respond(r, "getQuestionsByFilter", NoId, input,
                  ResolveGetQuestionsByFilter(questions, encounters, votes,
                                              input))
    /\ UNCHANGED <<questions, encounters, votes, nextQuestionId, nextVoteId>>

\* a resolver that hands back null for an unknown id
ResolveGetQuestionByIdNull(qs, encs, vs, id) ==
    IF id \notin DOMAIN qs THEN Ok(NullQuestion)
    ELSE LET questionData == FetchQuestion(qs, encs, vs, id)
         IN  IF Len(questionData.encounters) = 0 THEN Uncaught
             ELSE Ok(ShapeQuestion(questionData))

ResolveGetQuestionById(qs, encs, vs, id) ==
    IF id \notin DOMAIN qs THEN TRPCError("NOT_FOUND")
    ELSE LET questionData == FetchQuestion(qs, encs, vs, id)
         IN  IF Len(questionData.encounters) = 0 THEN Uncaught
             ELSE Ok(ShapeQuestion(questionData))

GetQuestionById(r) ==
    /\ Arrives(r)
    /\ \E id \in QuestionIds :
          Respond(r, "getQuestionById", NoId, [id |-> id],
                  ResolveGetQuestionById(questions, encounters, votes, id))
    /\ UNCHANGED <<questions, encounters, votes, nextQuestionId, nextVoteId>>

\* ----------------------------------------------------------------- create
QuestionRow(input, userId) ==
    [content |-> input.content, questionType |-> input.questionType,
     userId |-> userId]

EncounterRow(input, questionId, userId) ==
    [questionId |-> questionId, company |-> input.company,
     location |-> input.location, role |-> input.role,
     seenAt |-> input.seenAt, userId |-> userId]

\* questionsQuestion.create with the nested encounters.create
CreateQuestionWrite(encs, input, questionId, userId) ==
    Append(encs, EncounterRow(input, questionId, userId))

\* questionsQuestionEncounter.create
CreateEncounterWrite(encs, input, questionId, userId) ==
    Append(encs, EncounterRow(input, questionId, userId))

Create(r) ==
    /\ Arrives(r)
    /\ nextQuestionId <= MaxQuestions
    /\ \E u \in Users, input \in CreateInputs :
          /\ questions' = questions @@
                             (nextQuestionId :> QuestionRow(input, u))
          /\ encounters' = CreateQuestionWrite(encounters, input,
                                               nextQuestionId, u)
          /\ Await(r, "create", u, input, "createEncounter", nextQuestionId)
    /\ nextQuestionId' = nextQuestionId + 1
    /\ UNCHANGED <<votes, nextVoteId>>

CreateEncounter(r) ==
    /\ reqs[r].pc = "createEncounter" /\ NoneDone
    /\ LET question == reqs[r].local
       IN  IF ForeignKeyViolation(questions, question)
           THEN /\ Finish(r, Uncaught)
                /\ UNCHANGED encounters
           ELSE /\ encounters' = CreateEncounterWrite(encounters, reqs[r].input,
                                                     question, reqs[r].userId)
                /\ Finish(r, Ok([id |-> question,
                                 content |-> reqs[r].input.content,
                                 questionType |-> reqs[r].input.questionType,
                                 userId |-> reqs[r].userId]))
    /\ UNCHANGED <<questions, votes, nextQuestionId, nextVoteId>>

\* the second write is rejected by the persistence service
CreateEncounterFails(r) ==
    /\ reqs[r].pc = "createEncounter" /\ NoneDone
    /\ Finish(r, Uncaught)
    /\ UNCHANGED <<questions, encounters, votes, nextQuestionId, nextVoteId>>

\* -------------------------------------------------------- update / delete
\* the check against the Question's userId field
QuestionCheckFailsByOwner(question, userId) == question.userId # userId

\* a check that lets a missing Question through
QuestionCheckFailsSkipsNull(question, userId) ==
    question.id # NoId /\ question.id # userId

\* questionToUpdate?.id !== userId
QuestionCheckFails(question, userId) == question.id # userId

UpdateData(row, input) ==
    [content |-> IF input.content = Undefined THEN row.content
                 ELSE input.content,
     questionType |-> IF input.questionType = Undefined THEN row.questionType
                      ELSE input.questionType,
     userId |-> row.userId]

Update(r) ==
    /\ Arrives(r)
    /\ \E u \in Users, input \in UpdateInputs :
          LET questionToUpdate == FindUniqueQuestion(questions, input.id)
          IN  IF QuestionCheckFails(questionToUpdate, u)
              THEN Respond(r, "update", u, input, TRPCError("UNAUTHORIZED"))
              ELSE Await(r, "update", u, input, "updateWrite", NoId)
    /\ UNCHANGED <<questions, encounters, votes, nextQuestionId, nextVoteId>>

UpdateWrite(r) ==
    /\ reqs[r].pc = "updateWrite" /\ NoneDone
    /\ LET id == reqs[r].input.id
       IN  IF id \notin DOMAIN questions
           THEN /\ Finish(r, Uncaught)
                /\ UNCHANGED questions
           ELSE /\ questions' = [questions EXCEPT
                                   ![id] = UpdateData(@, reqs[r].input)]
                /\ Finish(r, Ok(FindUniqueQuestion(questions', id)))
    /\ UNCHANGED <<encounters, votes, nextQuestionId, nextVoteId>>

Delete(r) ==
    /\ Arrives(r)
    /\ \E u \in Users, id \in QuestionIds :
          LET questionToDelete == FindUniqueQuestion(questions, id)
          IN  IF QuestionCheckFails(questionToDelete, u)
              THEN Respond(r, "delete", u, [id |-> id],
                           TRPCError("UNAUTHORIZED"))
              ELSE Await(r, "delete", u, [id |-> id], "deleteWrite", NoId)
    /\ UNCHANGED <<questions, encounters, votes, nextQuestionId, nextVoteId>>

DeleteWrite(r) ==
    /\ reqs[r].pc = "deleteWrite" /\ NoneDone
    /\ LET id == reqs[r].input.id
       IN  IF id \notin DOMAIN questions
           THEN /\ Finish(r, Uncaught)
                /\ UNCHANGED <<questions, encounters, votes>>
           ELSE /\ questions' = RemoveKey(questions, id)
                /\ encounters' = CascadeEncounters(encounters, id)
                /\ votes' = CascadeVotes(votes, id)
                /\ Finish(r, Ok(FindUniqueQuestion(questions, id)))
    /\ UNCHANGED <<nextQuestionId, nextVoteId>>

\* ------------------------------------------------------------------ votes
GetVote(r) ==
    /\ Arrives(r)
    /\ \E u \in Users, questionId \in QuestionIds :
          LET ids == VoteIdsOfPair(votes, questionId, u)
          IN  Respond(r, "getVote", u, [questionId |-> questionId],
                      Ok(IF ids = {} THEN NullVote
                         ELSE FindUniqueVote(votes, CHOOSE v \in ids : TRUE)))
    /\ UNCHANGED <<questions, encounters, votes, nextQuestionId, nextVoteId>>

\* questionsQuestionVote.create({ data: { ...input, userId } }) is rejected
\* when the row would break a constraint of the table
CreateVoteRejected(qs, vs, questionId, userId) ==
    \/ UniqueViolation(vs, questionId, userId)
    \/ ForeignKeyViolation(qs, questionId)

CreateVote(r) ==
    /\ Arrives(r)
    /\ \E u \in Users, questionId \in QuestionIds, vote \in VoteKinds :
          LET input == [questionId |-> questionId, vote |-> vote]
          IN  IF CreateVoteRejected(questions, votes, questionId, u)
              THEN /\ Respond(r, "createVote", u, input, Uncaught)
                   /\ UNCHANGED <<votes, nextVoteId>>
              ELSE /\ nextVoteId <= MaxVotes
                   /\ votes' = votes @@
                         (nextVoteId :> [questionId |-> questionId,
                                         userId |-> u, vote |-> vote])
                   /\ nextVoteId' = nextVoteId + 1
                   /\ Respond(r, "createVote", u, input,
                              Ok(FindUniqueVote(votes', nextVoteId)))
    /\ UNCHANGED <<questions, encounters, nextQuestionId>>

\* a check that rejects a missing Vote only
VoteCheckFailsOnMissingOnly(vote, userId) == vote.id = NoId

\* voteToUpdate?.userId !== userId
VoteCheckFails(vote, userId) == vote.userId # userId

UpdateVote(r) ==
    /\ Arrives(r)
    /\ \E u \in Users, id \in VoteIds, vote \in VoteKinds :
          LET input == [id |-> id, vote |-> vote]
              voteToUpdate == FindUniqueVote(votes, id)
          IN  IF VoteCheckFails(voteToUpdate, u)
              THEN Respond(r, "updateVote", u, input,
                           TRPCError("UNAUTHORIZED"))
              ELSE Await(r, "updateVote", u, input, "updateVoteWrite", NoId)
    /\ UNCHANGED <<questions, encounters, votes, nextQuestionId, nextVoteId>>

UpdateVoteWrite(r) ==
    /\ reqs[r].pc = "updateVoteWrite" /\ NoneDone
    /\ LET id == reqs[r].input.id
       IN  IF id \notin DOMAIN votes
           THEN /\ Finish(r, Uncaught)
                /\ UNCHANGED votes
           ELSE /\ votes' = [votes EXCEPT ![id].vote = reqs[r].input.vote]
                /\ Finish(r, Ok(FindUniqueVote(votes', id)))
    /\ UNCHANGED <<questions, encounters, nextQuestionId, nextVoteId>>

DeleteVote(r) ==
    /\ Arrives(r)
    /\ \E u \in Users, id \in VoteIds :
          LET voteToDelete == FindUniqueVote(votes, id)
          IN  IF VoteCheckFails(voteToDelete, u)
              THEN Respond(r, "deleteVote", u, [id |-> id],
                           TRPCError("UNAUTHORIZED"))
              ELSE Await(r, "deleteVote", u, [id |-> id], "deleteVoteWrite",
                         NoId)
    /\ UNCHANGED <<questions, encounters, votes, nextQuestionId, nextVoteId>>

DeleteVoteWrite(r) ==
    /\ reqs[r].pc = "deleteVoteWrite" /\ NoneDone
    /\ LET id == reqs[r].input.id
       IN  IF id \notin DOMAIN votes
           THEN /\ Finish(r, Uncaught)
                /\ UNCHANGED votes
           ELSE /\ votes' = RemoveKey(votes, id)
                /\ Finish(r, Ok(FindUniqueVote(votes, id)))
    /\ UNCHANGED <<questions, encounters, nextQuestionId, nextVoteId>>

\* the response of slot r is delivered
Return(r) ==
    /\ reqs[r].pc = "done"
    /\ reqs' = [reqs EXCEPT ![r] = Idle]
    /\ UNCHANGED <<questions, encounters, votes, nextQuestionId, nextVoteId,
                   arrivals>>

\* --------------------------------------------------------- specifications
Init ==
    /\ questions = EmptyTable
    /\ encounters = <<>>
    /\ votes = EmptyTable
    /\ nextQuestionId = 1
    /\ nextVoteId = 1
    /\ reqs = [s \in Slots |-> Idle]
    /\ arrivals = 0

Next ==
    \E r \in Slots :
        \/ GetQuestionsByFilter(r, BrowseInputs)
        \/ GetQuestionById(r)
        \/ Create(r)
        \/ CreateEncounter(r)
        \/ CreateEncounterFails(r)
        \/ Update(r)
        \/ UpdateWrite(r)
        \/ Delete(r)
        \/ DeleteWrite(r)
        \/ GetVote(r)
        \/ CreateVote(r)
        \/ UpdateVote(r)
        \/ UpdateVoteWrite(r)
        \/ DeleteVote(r)
        \/ DeleteVoteWrite(r)
        \/ Return(r)

Spec == Init /\ [][Next]_vars

\* The query pipeline over one stored question whose encounters were
\* reported independently of its creation (any company, date, and a
\* location and role that may be null) and whose user may be gone.
StoredEncounters ==
    {[questionId |-> 1, company |-> c, location |-> lr[1], role |-> lr[2],
      seenAt |-> d, userId |-> 1] :
        c \in Companies, d \in Dates,
        lr \in {<<"L1", "R1">>, <<Null, Null>>}}

InitQuery ==
    /\ \E u \in {NoId, 1} :
          questions = (1 :> [content |-> "c1", questionType |-> "CODING",
                             userId |-> u])
    /\ \E n \in 0 .. MaxEnc : encounters \in [1 .. n -> StoredEncounters]
    /\ votes = EmptyTable
    /\ nextQuestionId = 2
    /\ nextVoteId = 1
    /\ reqs = [s \in Slots |-> Idle]
    /\ arrivals = MaxRequests - 1

NextQuery ==
    \/ GetQuestionsByFilter(1, QueryInputs)
    \/ GetQuestionById(1)
    \/ Return(1)

SpecQuery == InitQuery /\ [][NextQuery]_vars

\* ------------------------------------------------------------ properties
Done(r, op) == reqs[r].pc = "done" /\ reqs[r].op = op

\* the rows of the Encounter table that belong to question q, by position
EncounterPositions(q) ==
    {i \in 1 .. Len(encounters) : encounters[i].questionId = q}

\* encounter e satisfies all four conditions of the filter input
Satisfies(input, e) ==
    /\ input.companies = <<>>
       \/ \E k \in DOMAIN input.companies : input.companies[k] = e.company
    /\ input.locations = <<>>
       \/ \E k \in DOMAIN input.locations : input.locations[k] = e.location
    /\ input.roles = <<>>
       \/ \E k \in DOMAIN input.roles : input.roles[k] = e.role
    /\ input.startDate # NoDate => input.startDate <= e.seenAt
    /\ e.seenAt <= input.endDate

Fetched(input, q) ==
    /\ q \in DOMAIN questions
    /\ input.questionTypes = <<>>
       \/ \E k \in DOMAIN input.questionTypes :
             input.questionTypes[k] = questions[q].questionType

ReturnedIds(r) ==
    {reqs[r].result.value[i].id : i \in 1 .. Len(reqs[r].result.value)}

\* C1: getQuestionsByFilter returns a fetched question if and only if at
\* least one of its encounters satisfies the company, location, role and
\* date conditions at once; a question with no encounters is never returned.
C1_RetainedIffSomeEncounterMatches ==
    \A r \in Slots :
        Done(r, "getQuestionsByFilter") =>
            /\ reqs[r].result.code = "OK"
            /\ \A q \in 1 .. nextQuestionId :
                  (q \in ReturnedIds(r)) <=>
                      /\ Fetched(reqs[r].input, q)
                      /\ \E i \in EncounterPositions(q) :
                            Satisfies(reqs[r].input, encounters[i])

\* a question is returned through its second encounter while its first
\* encounter does not satisfy the filter
C1_Witness ==
    \E r \in Slots :
        /\ Done(r, "getQuestionsByFilter")
        /\ 1 \in ReturnedIds(r)
        /\ Len(encounters) = 2
        /\ ~Satisfies(reqs[r].input, encounters[1])
        /\ Satisfies(reqs[r].input, encounters[2])
        /\ reqs[r].input.companies # <<>>

FirstEncounter(q) ==
    encounters[CHOOSE i \in EncounterPositions(q) :
                   \A j \in EncounterPositions(q) : i <= j]

DisplaysFirstEncounter(rec) ==
    LET first == FirstEncounter(rec.id)
    IN  /\ rec.company = first.company
        /\ rec.seenAt = first.seenAt
        /\ rec.location = (IF first.location = Null THEN "Unknown location"
                           ELSE first.location)
        /\ rec.role = (IF first.role = Null THEN "Unknown role"
                       ELSE first.role)
        /\ rec.user = (IF questions[rec.id].userId = NoId THEN ""
                       ELSE UserName(questions[rec.id].userId))

\* C9: every record returned by getQuestionsByFilter and getQuestionById
\* shows the company, location, role and seenAt of the question's first
\* encounter, whichever encounter matched the filter; a null location or
\* role of that encounter is shown as "Unknown location" / "Unknown role"
\* and a missing user as the empty string.
C9_ShapedFromFirstEncounter ==
    \A r \in Slots :
        /\ Done(r, "getQuestionsByFilter") =>
              \A i \in 1 .. Len(reqs[r].result.value) :
                  DisplaysFirstEncounter(reqs[r].result.value[i])
        /\ (Done(r, "getQuestionById") /\ reqs[r].result.code = "OK") =>
              DisplaysFirstEncounter(reqs[r].result.value)

\* the returned question matched through its second encounter only, its
\* first encounter has neither location nor role, and its user is gone
C9_Witness ==
    \E r \in Slots :
        /\ Done(r, "getQuestionsByFilter")
        /\ Len(reqs[r].result.value) = 1
        /\ Len(encounters) = 2
        /\ ~Satisfies(reqs[r].input, encounters[1])
        /\ encounters[1].company # encounters[2].company
        /\ encounters[1].location = Null
        /\ encounters[2].location # Null
        /\ reqs[r].result.value[1].location = "Unknown location"
        /\ reqs[r].result.value[1].role = "Unknown role"
        /\ reqs[r].result.value[1].user = ""

UpVotes(q) ==
    {v \in DOMAIN votes : votes[v].questionId = q /\ votes[v].vote = "UPVOTE"}
DownVotes(q) ==
    {v \in DOMAIN votes :
        votes[v].questionId = q /\ votes[v].vote = "DOWNVOTE"}
Score(q) == Cardinality(UpVotes(q)) - Cardinality(DownVotes(q))

\* C2: numVotes of every question returned by getQuestionsByFilter or
\* getQuestionById is the number of UPVOTE votes minus the number of
\* DOWNVOTE votes of that question, whatever createVote, updateVote and
\* deleteVote did before.
C2_NumVotesIsUpMinusDown ==
    \A r \in Slots :
        /\ Done(r, "getQuestionsByFilter") =>
              \A i \in 1 .. Len(reqs[r].result.value) :
                  reqs[r].result.value[i].numVotes =
                      Score(reqs[r].result.value[i].id)
        /\ (Done(r, "getQuestionById") /\ reqs[r].result.code = "OK") =>
              reqs[r].result.value.numVotes = Score(reqs[r].result.value.id)

\* a question with one UPVOTE and one DOWNVOTE is returned with score 0
C2_Witness ==
    \E r \in Slots :
        /\ Done(r, "getQuestionById")
        /\ reqs[r].result.code = "OK"
        /\ UpVotes(reqs[r].input.id) # {}
        /\ DownVotes(reqs[r].input.id) # {}
        /\ reqs[r].result.value.numVotes = 0

\* slot r completes a request of operation op in this step
Completes(r, op) ==
    reqs[r].pc # "done" /\ reqs'[r].pc = "done" /\ reqs'[r].op = op

\* slot r receives a request of operation op in this step
Receives(r, op) == reqs[r].pc = "idle" /\ reqs'[r].op = op

OtherVotesKept(id) ==
    /\ DOMAIN votes \ {id} = DOMAIN votes' \ {id}
    /\ \A v \in DOMAIN votes \ {id} : votes'[v] = votes[v]

\* C3: an updateVote or deleteVote whose caller is not the userId of the
\* existing target Vote fails with UNAUTHORIZED and changes nothing; in
\* every interleaving, the lookup step of such a request writes nothing and
\* its write step changes or removes a Vote only when the caller owns that
\* Vote, and touches no other Vote.
C3_VoteWritesOnlyByOwner ==
    [][\A r \in Slots : \A op \in {"updateVote", "deleteVote"} :
          /\ Completes(r, op) =>
                LET id == reqs'[r].input.id
                    u == reqs'[r].userId
                IN  /\ (id \in DOMAIN votes /\ votes[id].userId # u) =>
                          /\ reqs'[r].result.code = "UNAUTHORIZED"
                          /\ votes' = votes
                    /\ votes' # votes =>
                          /\ id \in DOMAIN votes
                          /\ votes[id].userId = u
                          /\ OtherVotesKept(id)
          /\ Receives(r, op) => votes' = votes
      ]_vars

\* a caller who does not own the existing target Vote was refused
C3_Witness ==
    \E r \in Slots : \E op \in {"updateVote", "deleteVote"} :
        /\ Done(r, op)
        /\ reqs[r].result.code = "UNAUTHORIZED"
        /\ reqs[r].input.id \in DOMAIN votes
        /\ votes[reqs[r].input.id].userId # reqs[r].userId

\* C4: there is at most one Vote row per (questionId, userId) pair.
C4_OneVotePerQuestionAndUser ==
    \A v, w \in DOMAIN votes :
        (votes[v].questionId = votes[w].questionId
         /\ votes[v].userId = votes[w].userId) => v = w

\* a second createVote of the same user for the same question has failed
\* while the table could still take another row
C4_Witness ==
    \E r \in Slots :
        /\ Done(r, "createVote")
        /\ reqs[r].result.code = "INTERNAL_SERVER_ERROR"
        /\ VoteIdsOfPair(votes, reqs[r].input.questionId, reqs[r].userId) # {}
        /\ nextVoteId <= MaxVotes

WriteStage(op) == IF op = "update" THEN "updateWrite" ELSE "deleteWrite"

\* C5: for an existing question, update and delete go on to the write if
\* and only if the question's id equals the caller's userId; otherwise they
\* fail with UNAUTHORIZED at once, and no step of a caller whose userId
\* differs from the question's id changes the Question table.
C5_QuestionWriteIffIdIsCaller ==
    [][\A r \in Slots : \A op \in {"update", "delete"} :
          /\ Receives(r, op) =>
                LET id == reqs'[r].input.id
                    u == reqs'[r].userId
                IN  /\ questions' = questions
                    /\ id \in DOMAIN questions =>
                          /\ reqs'[r].pc = WriteStage(op) <=> id = u
                          /\ id # u =>
                                /\ reqs'[r].pc = "done"
                                /\ reqs'[r].result.code = "UNAUTHORIZED"
          /\ (Completes(r, op) /\ questions' # questions) =>
                reqs'[r].input.id = reqs'[r].userId
      ]_vars

\* the user who created the question was refused on it
C5_Witness ==
    \E r \in Slots : \E op \in {"update", "delete"} :
        /\ Done(r, op)
        /\ reqs[r].result.code = "UNAUTHORIZED"
        /\ reqs[r].input.id \in DOMAIN questions
        /\ questions[reqs[r].input.id].userId = reqs[r].userId

\* C6: getQuestionById with an id that matches no Question fails with
\* NOT_FOUND.
C6_UnknownIdIsNotFound ==
    \A r \in Slots :
        (Done(r, "getQuestionById") /\ reqs[r].input.id \notin DOMAIN questions)
            => reqs[r].result.code = "NOT_FOUND"

\* the id of a question that was created and then deleted is not found
C6_Witness ==
    \E r \in Slots :
        /\ Done(r, "getQuestionById")
        /\ reqs[r].input.id < nextQuestionId
        /\ reqs[r].input.id \notin DOMAIN questions
        /\ reqs[r].result.code = "NOT_FOUND"

\* C7: a successful create adds one Question row and exactly one Encounter
\* row for it, carrying the input's company, location, role and seenAt and
\* the caller's userId.
C7_CreateAddsOneEncounter ==
    \A r \in Slots :
        (Done(r, "create") /\ reqs[r].result.code = "OK") =>
            LET q == reqs[r].result.value.id
            IN  /\ q \in DOMAIN questions
                /\ Cardinality(EncounterPositions(q)) = 1
                /\ \A i \in EncounterPositions(q) :
                      encounters[i] =
                          EncounterRow(reqs[r].input, q, reqs[r].userId)

\* C8: when the second write of create fails after the first succeeded,
\* the Question that stays behind has no Encounter.
C8_FailedSecondWriteLeavesNoEncounter ==
    \A r \in Slots :
        (/\ Done(r, "create")
         /\ reqs[r].result.code = "INTERNAL_SERVER_ERROR"
         /\ reqs[r].local \in DOMAIN questions)
            => EncounterPositions(reqs[r].local) = {}

RefusedWithoutWrite(r) ==
    /\ reqs'[r].pc = "done"
    /\ reqs'[r].result.code = "UNAUTHORIZED"
    /\ UNCHANGED <<questions, encounters, votes>>

\* C10: update, delete, updateVote and deleteVote called with an id that
\* matches no row fail with UNAUTHORIZED, never reach their write, and
\* leave the Question, Encounter and Vote tables unchanged.
C10_MissingRowIsUnauthorized ==
    [][\A r \in Slots :
          /\ \A op \in {"update", "delete"} :
                (Receives(r, op) /\ reqs'[r].input.id \notin DOMAIN questions)
                    => RefusedWithoutWrite(r)
          /\ \A op \in {"updateVote", "deleteVote"} :
                (Receives(r, op) /\ reqs'[r].input.id \notin DOMAIN votes)
                    => RefusedWithoutWrite(r)
      ]_vars

\* a delete of an already deleted question, by the caller whose userId is
\* that question's id, was refused
C10_Witness ==
    \E r \in Slots :
        /\ Done(r, "delete")
        /\ reqs[r].result.code = "UNAUTHORIZED"
        /\ reqs[r].input.id < nextQuestionId
        /\ reqs[r].input.id \notin DOMAIN questions
        /\ reqs[r].input.id = reqs[r].userId

====
